---------------------------- MODULE Spec2Model ----------------------------
(***************************************************************************)
(* A model of kusto2md.py: the clipboard reader, the three HTMLParser      *)
(* subclasses, the document locators, the markdown renderer and main.      *)
(*                                                                         *)
(* A Python str is a sequence of one-character strings, so that slicing,   *)
(* searching, splitting and padding are computed as the code computes      *)
(* them.  None is the empty tuple NONE and a present value x is <<x>>.     *)
(* Two characters are written by name: "NBSP" is U+00A0 and "BACKTICK" is  *)
(* U+0060.                                                                 *)
(***************************************************************************)
EXTENDS Integers, Sequences, FiniteSets, TLC

VARIABLES
    rows,        \* rows_to_markdown: the caller's list object, mutated in place
    outs,        \* rows_to_markdown: the strings returned by the calls so far
    raw,         \* rows_to_markdown: the rows as they were before the first call
    b_args,      \* build_markdown: its four arguments
    b_doc,       \* build_markdown: NONE, or <<the string returned>>
    t_ext,       \* TableExtractor: the instance's fields and the lists they name
    t_log,       \* TableExtractor: the events fed so far
    t_emits,     \* TableExtractor: for each row in rows, the event that appended it
    l_ext,       \* LinkExtractor: the instance's fields
    l_log,       \* LinkExtractor: the events fed so far
    c_pc,        \* get_html_from_clipboard: the call it is about to make
    c_data,      \* the clipboard: NONE, or <<the bytes stored as "HTML Format">>
    c_open,      \* the clipboard is open (OpenClipboard without CloseClipboard)
    c_locked,    \* the data handle is locked (GlobalLock without GlobalUnlock)
    c_calls,     \* how often CloseClipboard and GlobalUnlock were called
    c_got,       \* OpenClipboard succeeded; GlobalLock succeeded; data was
                 \* touched while the clipboard was not open
    c_pending,   \* the return or exception on its way out through the finally blocks
    c_result,    \* NONE until the function ends, then <<how it ended>>
    m_pc,        \* main: where it is
    m_html,      \* main: html, NONE or <<the document>>
    m_text,      \* main: NONE, or <<what pyperclip.paste() returned>>
    m_found,     \* main: NONE, or <<execute_links, cluster_url, query, table_rows>>
    m_markdown,  \* main: NONE, or <<markdown>>
    m_sink       \* the strings pyperclip.copy() was called with, in order

rowsVars == <<rows, outs, raw>>

buildVars == <<b_args, b_doc>>

tableVars == <<t_ext, t_log, t_emits>>

linkVars == <<l_ext, l_log>>

clipVars == <<c_pc, c_data, c_open, c_locked, c_calls, c_got, c_pending, c_result>>

mainVars == <<m_pc, m_html, m_text, m_found, m_markdown, m_sink>>

vars == <<rowsVars, buildVars, tableVars, linkVars, clipVars, mainVars>>

(***************************************************************************)
(* Python values                                                           *)
(***************************************************************************)
NONE == << >>

Some(x) == <<x>>

\* a list built by a comprehension, as the tuple of its elements
List(f) == << >> \o f

MaxOf(S) == CHOOSE m \in S : \A n \in S : n <= m

RECURSIVE Join(_, _)
\* sep.join(parts)
Join(parts, sep) ==
    IF Len(parts) = 0 THEN << >>
    ELSE IF Len(parts) = 1 THEN parts[1]
    ELSE parts[1] \o sep \o Join(Tail(parts), sep)

RECURSIVE Split(_, _)
\* s.split(c) for a one-character separator c
Split(s, c) ==
    IF \A i \in 1..Len(s) : s[i] # c THEN <<s>>
    ELSE LET k == CHOOSE i \in 1..Len(s) :
                      s[i] = c /\ \A j \in 1..(i - 1) : s[j] # c
         IN  <<SubSeq(s, 1, k - 1)>> \o Split(SubSeq(s, k + 1, Len(s)), c)

RECURSIVE RStrip(_, _)
\* s.rstrip(chars)
RStrip(s, chars) ==
    IF Len(s) > 0 /\ s[Len(s)] \in chars THEN RStrip(SubSeq(s, 1, Len(s) - 1), chars)
    ELSE s

RECURSIVE LStrip(_, _)
LStrip(s, chars) ==
    IF Len(s) > 0 /\ s[1] \in chars THEN LStrip(Tail(s), chars)
    ELSE s

\* the characters str.strip() and the regex class \s take for whitespace
Whitespace == {" ", "\t", "\n", "\r", "NBSP"}

\* the characters str.strip() removes; U+00A0 is one of them
Strip(s) == LStrip(RStrip(s, Whitespace), Whitespace)

\* s.ljust(w)
Ljust(s, w) == s \o [i \in 1..(w - Len(s)) |-> " "]

\* ch * w
Repeat(ch, w) == [i \in 1..w |-> ch]

\* s[i:].startswith(p), i counted from 1
StartsAt(s, i, p) ==
    /\ i + Len(p) - 1 <= Len(s)
    /\ \A j \in 1..Len(p) : s[i + j - 1] = p[j]

StartsWith(s, p) == StartsAt(s, 1, p)

\* p in s
Contains(s, p) == \E i \in 1..(Len(s) + 1) : StartsAt(s, i, p)

\* s.split("\n")
Lines(s) == Split(s, "\n")

(***************************************************************************)
(* URL_RE and linkify_url                                                  *)
(***************************************************************************)
HTTP == <<"h", "t", "t", "p", ":", "/", "/">>

HTTPS == <<"h", "t", "t", "p", "s", ":", "/", "/">>

\* the class [^\s\)\]>"] is every character outside this set
UrlStop == Whitespace \cup {")", "]", ">", "\""}

\* the length of the scheme matched at i, 0 when https?:// does not match there
SchemeLen(s, i) ==
    IF StartsAt(s, i, HTTP) THEN Len(HTTP)
    ELSE IF StartsAt(s, i, HTTPS) THEN Len(HTTPS)
    ELSE 0

\* the length of the greedy run [^\s\)\]>"]* starting at i: it ends before
\* the first character of UrlStop, or with s
RunLen(s, i) ==
    LET ends == {j \in i..(Len(s) + 1) : j = Len(s) + 1 \/ s[j] \in UrlStop}
    IN  (CHOOSE j \in ends : \A k \in ends : j <= k) - i

\* the length of the match of URL_RE at i, 0 when there is none
MatchLen(s, i) ==
    LET sl == SchemeLen(s, i)
        rl == IF sl = 0 THEN 0 ELSE RunLen(s, i + sl)
    IN  IF sl > 0 /\ rl > 0 THEN sl + rl ELSE 0

\* URL_RE.search(s) is not None
URL_RE_search(s) == \E i \in 1..Len(s) : MatchLen(s, i) > 0

LabelMax == 60

LabelKeep == 57

Ellipsis == <<".", ".", ".">>

\* linkify_url with the label taken from the last three "/"-parts
linkify_url_last_three(url) ==
    LET stripped == RStrip(url, {"/"})
        parts == Split(stripped, "/")
        n == Len(parts)
        label0 == IF n >= 3 THEN Join(SubSeq(parts, n - 2, n), <<"/">>) ELSE stripped
        label == IF Len(label0) > LabelMax
                 THEN SubSeq(label0, 1, LabelKeep) \o Ellipsis
                 ELSE label0
    IN  <<"[">> \o label \o <<"]", "(">> \o url \o <<")">>

linkify_url(url) ==
    LET stripped == RStrip(url, {"/"})
        parts == Split(stripped, "/")
        n == Len(parts)
        label0 == IF n >= 2 THEN Join(SubSeq(parts, n - 1, n), <<"/">>) ELSE stripped
        label == IF Len(label0) > LabelMax
                 THEN SubSeq(label0, 1, LabelKeep) \o Ellipsis
                 ELSE label0
    IN  <<"[">> \o label \o <<"]", "(">> \o url \o <<")">>

RECURSIVE SubFrom(_, _)
\* URL_RE.sub(lambda m: linkify_url(m.group(0)), s), scanning from i
SubFrom(s, i) ==
    LET starts == {k \in i..Len(s) : MatchLen(s, k) > 0}
    IN  IF starts = {} THEN SubSeq(s, i, Len(s))
        ELSE LET k == CHOOSE j \in starts : \A l \in starts : j <= l
                 m == MatchLen(s, k)
             IN  SubSeq(s, i, k - 1) \o linkify_url(SubSeq(s, k, k + m - 1))
                    \o SubFrom(s, k + m)

URL_RE_sub(s) == SubFrom(s, 1)

(***************************************************************************)
(* rows_to_markdown                                                        *)
(***************************************************************************)
MinWidth == 3

max_cols(rs) == MaxOf({Len(rs[r]) : r \in 1..Len(rs)})

\* lines 239-241: every row padded in place with "" to max_cols
PadRows(rs) ==
    LET n == max_cols(rs)
    IN  List([r \in 1..Len(rs) |-> rs[r] \o [i \in 1..(n - Len(rs[r])) |-> << >>]])

\* line 247-248 for one cell
LinkifyCell(cell) == IF URL_RE_search(cell) THEN URL_RE_sub(cell) ELSE cell

\* lines 244-248: the data rows (index >= 1, here >= 2) linkified in place
LinkifyRows(rs) ==
    List([r \in 1..Len(rs) |->
        IF r = 1 THEN rs[r]
        ELSE List([c \in 1..Len(rs[r]) |-> LinkifyCell(rs[r][c])])])

\* the list object as rows_to_markdown leaves it
RowsAfter(rs) == IF Len(rs) = 0 THEN rs ELSE LinkifyRows(PadRows(rs))

\* lines 250-251
col_widths(rs) ==
    List([c \in 1..max_cols(rs) |->
        LET w == MaxOf({Len(rs[r][c]) : r \in 1..Len(rs)})
        IN  IF w > MinWidth THEN w ELSE MinWidth])

\* lines 253-254
fmt(row, widths) ==
    <<"|", " ">>
    \o Join([i \in 1..Len(row) |-> Ljust(row[i], widths[i])], <<" ", "|", " ">>)
    \o <<" ", "|">>

\* line 257
sep(widths) ==
    <<"|", " ">>
    \o Join([i \in 1..Len(widths) |-> Repeat("-", widths[i])], <<" ", "|", " ">>)
    \o <<" ", "|">>

\* lines 256-259: "\n".join([header, sep] + data)
Render(done, widths) ==
    Join(<<fmt(done[1], widths), sep(widths)>>
         \o [k \in 1..(Len(done) - 1) |-> fmt(done[k + 1], widths)],
         <<"\n">>)

\* the string rows_to_markdown returns
rows_to_markdown(rs) ==
    IF Len(rs) = 0 THEN << >>
    ELSE LET done == RowsAfter(rs)
         IN  Render(done, col_widths(done))

(***************************************************************************)
(* The renderer called on one list object, call after call                 *)
(***************************************************************************)
MaxRows == 2

MaxCols == 2

MaxCalls == 2

UrlCell ==
    <<"s", "e", "e", " ", "h", "t", "t", "p", ":", "/", "/", "e", "x", "a", "m",
      "p", "l", "e", ".", "c", "o", "m", "/", "a", "/", "b", "/", "c", " ", "f",
      "o", "r", " ", "d", "e", "t", "a", "i", "l", "s">>

TwoLineCell == <<"x", "\n", "y">>

\* a cell with a URL in running text, and a cell whose text has a line break
Cells == {UrlCell, TwoLineCell}

SeqsUpTo(S, n) == UNION {[1..k -> S] : k \in 0..n}

RowSeqs == SeqsUpTo(SeqsUpTo(Cells, MaxCols), MaxRows)

InitRows ==
    /\ rows \in RowSeqs
    /\ outs = << >>
    /\ raw = rows

\* out = rows_to_markdown(rows), with the same list object passed every time
CallRowsToMarkdown ==
    /\ Len(outs) < MaxCalls
    /\ outs' = Append(outs, rows_to_markdown(rows))
    /\ rows' = RowsAfter(rows)
    /\ UNCHANGED raw

RowsIdle ==
    /\ rows = << >>
    /\ outs = << >>
    /\ raw = << >>

(***************************************************************************)
(* build_markdown                                                          *)
(***************************************************************************)
QueryHeading == <<"#", "#", "#", " ", "Q", "u", "e", "r", "y">>

ResultsHeading == <<"#", "#", "#", " ", "R", "e", "s", "u", "l", "t", "s">>

ClusterPrefix ==
    <<">", " ", "*", "*", "C", "l", "u", "s", "t", "e", "r", ":", "*", "*", " ">>

OpenInPrefix ==
    <<">", " ", "*", "*", "O", "p", "e", "n", " ", "i", "n", ":", "*", "*", " ">>

FenceOpen == <<"BACKTICK", "BACKTICK", "BACKTICK", "k", "q", "l">>

FenceClose == <<"BACKTICK", "BACKTICK", "BACKTICK">>

QueryParam == <<"q", "u", "e", "r", "y", "=">>

\* the truth value of an optional str or list: None and the empty one are false
Truthy(opt) == opt # NONE /\ Len(opt[1]) > 0

\* lines 272-275: the deep-links, each as "[label](url)"
link_items(execute_links) ==
    LET deep == SelectSeq(execute_links, LAMBDA l : Contains(l.url, QueryParam))
    IN  List([i \in 1..Len(deep) |->
                <<"[">> \o deep[i].label \o <<"]", "(">> \o deep[i].url \o <<")">>])

\* lines 267-277
HeaderParts(execute_links, cluster_url) ==
    IF Len(execute_links) > 0 \/ Truthy(cluster_url)
    THEN <<QueryHeading \o <<"\n">>>>
         \o (IF Truthy(cluster_url)
             THEN <<ClusterPrefix \o cluster_url[1] \o <<"\n">>>>
             ELSE << >>)
         \o (IF Len(execute_links) > 0 /\ Len(link_items(execute_links)) > 0
             THEN <<OpenInPrefix
                    \o Join(link_items(execute_links), <<" ", "|", " ">>)
                    \o <<"\n">>>>
             ELSE << >>)
    ELSE << >>

\* the second heading emitted without looking at what is above it
BareHeadingAlways(execute_links, cluster_url) == <<QueryHeading \o <<"\n">>>>

\* the bare second heading of lines 281-282
BareHeadingParts(execute_links, cluster_url) ==
    IF ~(Len(execute_links) > 0) /\ ~Truthy(cluster_url)
    THEN <<QueryHeading \o <<"\n">>>>
    ELSE << >>

\* lines 280-283
QueryParts(execute_links, cluster_url, query) ==
    IF Truthy(query)
    THEN BareHeadingParts(execute_links, cluster_url)
         \o <<FenceOpen \o <<"\n">> \o query[1] \o <<"\n">> \o FenceClose>>
    ELSE << >>

\* lines 286-288
ResultsParts(table_rows) ==
    IF Truthy(table_rows)
    THEN <<<<"\n">> \o ResultsHeading \o <<"\n">>, rows_to_markdown(table_rows[1])>>
    ELSE << >>

build_markdown(execute_links, cluster_url, query, table_rows) ==
    Join(HeaderParts(execute_links, cluster_url)
         \o QueryParts(execute_links, cluster_url, query)
         \o ResultsParts(table_rows),
         <<"\n">>)

(***************************************************************************)
(* build_markdown called on every combination of arguments                 *)
(***************************************************************************)
MaxLinks == 2

ClusterUrl ==
    <<"h", "t", "t", "p", "s", ":", "/", "/", "c", ".", "k", "u", "s", "t", "o",
      ".", "n", "e", "t">>

DeepUrl ==
    <<"h", "t", "t", "p", "s", ":", "/", "/", "c", ".", "k", "u", "s", "t", "o",
      ".", "n", "e", "t", "/", "d", "b", "?", "q", "u", "e", "r", "y", "=", "H",
      "4", "s">>

DeepLink == [label |-> <<"w", "e", "b">>, url |-> DeepUrl]

PlainLink == [label |-> <<"c">>, url |-> ClusterUrl]

OneLineQuery == <<"T">>

TwoLineQuery == <<"T", "\n", "|", " ", "t", "a", "k", "e", " ", "1">>

PlainCell == <<"a", "b">>

QueryChoices == {NONE, Some(OneLineQuery), Some(TwoLineQuery)}

TableChoices ==
    {NONE, Some(<<<<PlainCell>>>>), Some(<<<<PlainCell, PlainCell>>, <<UrlCell>>>>)}

InitBuild ==
    /\ b_args \in [links : SeqsUpTo({DeepLink, PlainLink}, MaxLinks),
                   cluster : {NONE, Some(ClusterUrl)},
                   query : QueryChoices,
                   table : TableChoices]
    /\ b_doc = NONE

BuildIdle ==
    /\ b_args = NONE
    /\ b_doc = NONE

\* doc = build_markdown(execute_links, cluster_url, query, table_rows)
CallBuildMarkdown ==
    /\ b_doc = NONE
    /\ b_doc' = Some(build_markdown(b_args.links, b_args.cluster,
                                    b_args.query, b_args.table))
    /\ UNCHANGED b_args

(***************************************************************************)
(* HTMLParser events.  feed() calls handle_starttag, handle_endtag and     *)
(* handle_data in document order; an event is one such call.  Attribute    *)
(* values and text arrive with their character references decoded          *)
(* (convert_charrefs), so handle_entityref and handle_charref never run.   *)
(***************************************************************************)
StartTag(tag) == [k |-> "start", tag |-> tag, href |-> NONE, text |-> << >>]

\* <a ...> with attrs_dict.get("href") = href (NONE when there is no href)
StartA(href) == [k |-> "start", tag |-> "a", href |-> href, text |-> << >>]

EndTag(tag) == [k |-> "end", tag |-> tag, href |-> NONE, text |-> << >>]

Data(text) == [k |-> "data", tag |-> "", href |-> NONE, text |-> text]

Amp == <<"&", "a", "m", "p", ";">>

\* the positions of s that html.unescape drops: "amp;" after each "&" that
\* starts "&amp;", the one reference the documents of this model use
AmpTail(s) ==
    {i \in 1..Len(s) : \E j \in 1..(i - 1) : i - j < Len(Amp) /\ StartsAt(s, j, Amp)}

\* html.unescape(s): one pass, left to right
unescape(s) ==
    LET dropped == AmpTail(s)
        marked == List([i \in 1..Len(s) |-> <<s[i], i \in dropped>>])
        kept == SelectSeq(marked, LAMBDA p : ~p[2])
    IN  List([i \in 1..Len(kept) |-> kept[i][1]])

\* s.replace("\xa0", " ")
ReplaceNbsp(s) == List([i \in 1..Len(s) |-> IF s[i] = "NBSP" THEN " " ELSE s[i]])

\* "".join(pieces)
Concat(pieces) == Join(pieces, << >>)

(***************************************************************************)
(* TextExtractor                                                           *)
(***************************************************************************)
TX_init == [lines |-> << >>, current_line |-> << >>, skip |-> FALSE]

TX_flush_line(st) ==
    LET text == Concat(st.current_line)
    IN  [st EXCEPT !.lines = IF Len(text) > 0 THEN Append(@, text) ELSE @,
                   !.current_line = << >>]

TX_handle_starttag(st, tag) ==
    LET st1 == IF tag = "style" THEN [st EXCEPT !.skip = TRUE] ELSE st
    IN  IF tag \in {"p", "br"} THEN TX_flush_line(st1) ELSE st1

TX_handle_endtag(st, tag) ==
    IF tag = "style" THEN [st EXCEPT !.skip = FALSE] ELSE st

TX_handle_data(st, data) ==
    IF ~st.skip THEN [st EXCEPT !.current_line = Append(@, data)] ELSE st

TX_get_text(st) == Join(TX_flush_line(st).lines, <<"\n">>)

TX_handle(st, ev) ==
    IF ev.k = "start" THEN TX_handle_starttag(st, ev.tag)
    ELSE IF ev.k = "end" THEN TX_handle_endtag(st, ev.tag)
    ELSE TX_handle_data(st, ev.text)

RECURSIVE TX_feed(_, _, _)
\* feed(): the events from i on, each handled before the next is looked at
TX_feed(st, evs, i) ==
    IF i > Len(evs) THEN st
    ELSE CHOOSE end \in {TX_feed(next, evs, i + 1) : next \in {TX_handle(st, evs[i])}} : TRUE

(***************************************************************************)
(* TableExtractor.  _current_row is a reference to a list object and rows  *)
(* holds references too: heap[r] is the list that reference r names.  A    *)
(* cell carries, beside its text, the index `at` of the event that closed  *)
(* it.                                                                     *)
(***************************************************************************)
TE_init ==
    [rows |-> << >>, in_td |-> FALSE, current_cell |-> << >>,
     current_row |-> 1, heap |-> <<<< >>>>]

TE_handle_starttag(st, tag) ==
    IF tag = "td" THEN [st EXCEPT !.in_td = TRUE, !.current_cell = << >>]
    ELSE IF tag = "tr"
    THEN [st EXCEPT !.current_row = Len(st.heap) + 1, !.heap = Append(@, << >>)]
    ELSE st

TE_handle_endtag(st, tag, at) ==
    IF tag = "td"
    THEN [st EXCEPT !.in_td = FALSE,
                    !.heap[st.current_row] =
                        Append(@, [text |-> Strip(Concat(st.current_cell)), at |-> at])]
    ELSE IF tag = "tr"
    THEN IF Len(st.heap[st.current_row]) > 0
         THEN [st EXCEPT !.rows = Append(@, st.current_row)]
         ELSE st
    ELSE st

TE_handle_data(st, data) ==
    IF st.in_td THEN [st EXCEPT !.current_cell = Append(@, data)] ELSE st

TE_handle(st, ev, at) ==
    IF ev.k = "start" THEN TE_handle_starttag(st, ev.tag)
    ELSE IF ev.k = "end" THEN TE_handle_endtag(st, ev.tag, at)
    ELSE TE_handle_data(st, ev.text)

RECURSIVE TE_feed(_, _, _)
\* feed(): the events from i on, each handled before the next is looked at
TE_feed(st, evs, i) ==
    IF i > Len(evs) THEN st
    ELSE CHOOSE end \in {TE_feed(next, evs, i + 1) : next \in {TE_handle(st, evs[i], i)}} : TRUE

\* extractor.rows, every reference followed
TE_rows(st) == List([k \in 1..Len(st.rows) |-> st.heap[st.rows[k]]])

\* the rows as lists of str
TE_texts(st) ==
    List([k \in 1..Len(st.rows) |->
            List([c \in 1..Len(TE_rows(st)[k]) |-> TE_rows(st)[k][c].text])])

(***************************************************************************)
(* extract_execute_links.LinkExtractor.  A piece of _current_text carries, *)
(* beside its text, the index `at` of the data event it came from, and     *)
(* _current_href the index of the start tag that set it.                   *)
(***************************************************************************)
LE_init == [links |-> << >>, current_href |-> NONE, hrefAt |-> 0, current_text |-> << >>]

\* handle_starttag that lets an <a> without href keep the href before it
LE_handle_starttag_keeping_href(st, tag, href, at) ==
    IF tag = "a"
    THEN IF href = NONE
         THEN [st EXCEPT !.current_text = << >>]
         ELSE [st EXCEPT !.current_href = href, !.hrefAt = at, !.current_text = << >>]
    ELSE st

LE_handle_starttag(st, tag, href, at) ==
    IF tag = "a"
    THEN [st EXCEPT !.current_href = href, !.hrefAt = at, !.current_text = << >>]
    ELSE st

LE_handle_endtag(st, tag) ==
    IF tag = "a" /\ Truthy(st.current_href)
    THEN [st EXCEPT
            !.links = Append(@,
                [label |-> Strip(Concat([i \in 1..Len(st.current_text) |->
                                            st.current_text[i].text])),
                 url |-> unescape(st.current_href[1]),
                 src |-> {st.current_text[i].at : i \in 1..Len(st.current_text)},
                 from |-> st.hrefAt]),
            !.current_href = NONE]
    ELSE st

LE_handle_data(st, data, at) ==
    IF st.current_href # NONE
    THEN [st EXCEPT !.current_text = Append(@, [text |-> data, at |-> at])]
    ELSE st

LE_handle(st, ev, at) ==
    IF ev.k = "start" THEN LE_handle_starttag(st, ev.tag, ev.href, at)
    ELSE IF ev.k = "end" THEN LE_handle_endtag(st, ev.tag)
    ELSE LE_handle_data(st, ev.text, at)

RECURSIVE LE_feed(_, _, _)
\* feed(): the events from i on, each handled before the next is looked at
LE_feed(st, evs, i) ==
    IF i > Len(evs) THEN st
    ELSE CHOOSE end \in {LE_feed(next, evs, i + 1) : next \in {LE_handle(st, evs[i], i)}} : TRUE

\* extractor.links as (label, url) pairs
LE_pairs(st) ==
    List([k \in 1..Len(st.links) |->
            [label |-> st.links[k].label, url |-> st.links[k].url]])

(***************************************************************************)
(* A TableExtractor fed any sequence of <tr>, </tr>, <td>, </td> and text  *)
(***************************************************************************)
MaxTableEvents == 6

TableTags == {"tr", "td"}

TableTexts == {<<"a">>, <<" ", "b">>}

InitTable ==
    /\ t_ext = TE_init
    /\ t_log = << >>
    /\ t_emits = << >>

TableIdle ==
    /\ t_ext = NONE
    /\ t_log = << >>
    /\ t_emits = << >>

\* the extractor after one more event, with the log and the record of which
\* event appended which row
TableStep(ev) ==
    LET at == Len(t_log) + 1
        after == TE_handle(t_ext, ev, at)
    IN  /\ Len(t_log) < MaxTableEvents
        /\ t_ext' = after
        /\ t_log' = Append(t_log, ev)
        /\ t_emits' = t_emits \o [i \in 1..(Len(after.rows) - Len(t_ext.rows)) |-> at]

TableStartTag == \E tag \in TableTags : TableStep(StartTag(tag))

TableEndTag == \E tag \in TableTags : TableStep(EndTag(tag))

TableData == \E text \in TableTexts : TableStep(Data(text))

(***************************************************************************)
(* A LinkExtractor fed any sequence of <a>, </a> and text                  *)
(***************************************************************************)
MaxLinkEvents == 6

\* <a> without href, <a href="">, <a href="https://...">
LinkHrefs == {NONE, Some(<< >>), Some(DeepUrl)}

LinkTexts == {<<"w">>}

InitLink ==
    /\ l_ext = LE_init
    /\ l_log = << >>

LinkIdle ==
    /\ l_ext = NONE
    /\ l_log = << >>

LinkStep(ev) ==
    /\ Len(l_log) < MaxLinkEvents
    /\ l_ext' = LE_handle(l_ext, ev, Len(l_log) + 1)
    /\ l_log' = Append(l_log, ev)

LinkStartTag == \E href \in LinkHrefs : LinkStep(StartA(href))

LinkEndTag == LinkStep(EndTag("a"))

LinkData == \E text \in LinkTexts : LinkStep(Data(text))

(***************************************************************************)
(* get_html_from_clipboard, one Win32 call per step.  Every call the       *)
(* system may fail is taken both ways.                                     *)
(***************************************************************************)
MaxBytes == 2

\* a byte that is text, a zero byte, and a byte that is not valid UTF-8
Bytes == {"a", "NUL", "0xFF"}

\* data.decode("utf-8", errors="replace")
Decode(bytes) == [i \in 1..Len(bytes) |-> IF bytes[i] = "0xFF" THEN "U+FFFD" ELSE bytes[i]]

Returning(value) == [kind |-> "return", value |-> value]

Raising == [kind |-> "raise", value |-> NONE]

InitClip ==
    /\ c_pc = "RegisterClipboardFormatW"
    /\ c_data \in {NONE} \cup {Some(b) : b \in SeqsUpTo(Bytes, MaxBytes)}
    /\ c_open = FALSE
    /\ c_locked = FALSE
    /\ c_calls = [close |-> 0, unlock |-> 0]
    /\ c_got = [opened |-> FALSE, locked |-> FALSE, touchedClosed |-> FALSE]
    /\ c_pending = NONE
    /\ c_result = NONE

ClipIdle ==
    /\ c_pc = "idle"
    /\ c_data = NONE
    /\ c_open = FALSE
    /\ c_locked = FALSE
    /\ c_calls = NONE
    /\ c_got = NONE
    /\ c_pending = NONE
    /\ c_result = NONE

\* a use of the clipboard's data by the call being made
Touch == [c_got EXCEPT !.touchedClosed = @ \/ ~c_open]

\* lines 44-46
RegisterClipboardFormatW ==
    /\ c_pc = "RegisterClipboardFormatW"
    /\ \E format \in {0, 1} :
          IF format = 0
          THEN c_pc' = "done" /\ c_result' = Some(Returning(NONE))
          ELSE c_pc' = "OpenClipboard" /\ UNCHANGED c_result
    /\ UNCHANGED <<c_data, c_open, c_locked, c_calls, c_got, c_pending>>

\* lines 48-49
OpenClipboard ==
    /\ c_pc = "OpenClipboard"
    /\ \E ok \in BOOLEAN :
          IF ok
          THEN /\ c_pc' = "GetClipboardData"
               /\ c_open' = TRUE
               /\ c_got' = [c_got EXCEPT !.opened = TRUE]
               /\ UNCHANGED c_result
          ELSE /\ c_pc' = "done"
               /\ c_result' = Some(Returning(NONE))
               /\ UNCHANGED <<c_open, c_got>>
    /\ UNCHANGED <<c_data, c_locked, c_calls, c_pending>>

\* GetClipboardData whose null handle returns past the outer finally
GetClipboardData_without_finally ==
    /\ c_pc = "GetClipboardData"
    /\ c_got' = Touch
    /\ IF c_data = NONE
       THEN c_pc' = "done" /\ c_result' = Some(Returning(NONE))
       ELSE c_pc' = "GlobalSize" /\ UNCHANGED c_result
    /\ UNCHANGED <<c_data, c_open, c_locked, c_calls, c_pending>>

\* lines 51-53: the handle is null when the clipboard holds no HTML Format
GetClipboardData ==
    /\ c_pc = "GetClipboardData"
    /\ c_got' = Touch
    /\ IF c_data = NONE
       THEN c_pc' = "CloseClipboard" /\ c_pending' = Returning(NONE)
       ELSE c_pc' = "GlobalSize" /\ UNCHANGED c_pending
    /\ UNCHANGED <<c_data, c_open, c_locked, c_calls, c_result>>

\* lines 54-56
GlobalSize ==
    /\ c_pc = "GlobalSize"
    /\ c_got' = Touch
    /\ IF Len(c_data[1]) = 0
       THEN c_pc' = "CloseClipboard" /\ c_pending' = Returning(NONE)
       ELSE c_pc' = "GlobalLock" /\ UNCHANGED c_pending
    /\ UNCHANGED <<c_data, c_open, c_locked, c_calls, c_result>>

\* lines 57-59
GlobalLock ==
    /\ c_pc = "GlobalLock"
    /\ \E ok \in BOOLEAN :
          IF ok
          THEN /\ c_pc' = "string_at"
               /\ c_locked' = TRUE
               /\ c_got' = [Touch EXCEPT !.locked = TRUE]
               /\ UNCHANGED c_pending
          ELSE /\ c_pc' = "CloseClipboard"
               /\ c_pending' = Returning(NONE)
               /\ c_got' = Touch
               /\ UNCHANGED c_locked
    /\ UNCHANGED <<c_data, c_open, c_calls, c_result>>

\* lines 61-62: the copy and the decoding, which may also raise
ReadAndDecode ==
    /\ c_pc = "string_at"
    /\ c_got' = Touch
    /\ \E raises \in BOOLEAN :
          c_pending' = IF raises THEN Raising
                       ELSE Returning(Some(RStrip(Decode(c_data[1]), {"NUL"})))
    /\ c_pc' = "GlobalUnlock"
    /\ UNCHANGED <<c_data, c_open, c_locked, c_calls, c_result>>

\* lines 63-64: the inner finally
GlobalUnlock ==
    /\ c_pc = "GlobalUnlock"
    /\ c_locked' = FALSE
    /\ c_calls' = [c_calls EXCEPT !.unlock = @ + 1]
    /\ c_pc' = "CloseClipboard"
    /\ UNCHANGED <<c_data, c_open, c_got, c_pending, c_result>>

\* lines 65-66: the outer finally, after which the return or raise completes
CloseClipboard ==
    /\ c_pc = "CloseClipboard"
    /\ c_open' = FALSE
    /\ c_calls' = [c_calls EXCEPT !.close = @ + 1]
    /\ c_pc' = "done"
    /\ c_result' = Some(c_pending)
    /\ UNCHANGED <<c_data, c_locked, c_got, c_pending>>

(***************************************************************************)
(* Documents.  The HTML blob is a sequence of segments, each standing for  *)
(* its text: filler without markup, <a href="...">label</a>,               *)
(* <div data-type="query">...</div>, <div data-type="result"></div> and    *)
(* <table>...</table>.  Offsets and lengths are counted in characters of   *)
(* that text; the inside of a div or table is the events it parses to, the *)
(* last of them a tag: feed() hands text over only once a tag follows it.  *)
(***************************************************************************)
PadLen == 2500

Pad == [kind |-> "pad", href |-> << >>, label |-> << >>, inner |-> << >>]

Anchor(href, label) == [kind |-> "a", href |-> href, label |-> label, inner |-> << >>]

QueryDiv(inner) == [kind |-> "qdiv", href |-> << >>, label |-> << >>, inner |-> inner]

OtherDiv == [kind |-> "odiv", href |-> << >>, label |-> << >>, inner |-> << >>]

Table(inner) == [kind |-> "table", href |-> << >>, label |-> << >>, inner |-> inner]

\* len('<div data-type="query">'), the marker html.find looks for
MarkerLen == 23

TagLen(tag) ==
    CASE tag \in {"a", "p"} -> 1
      [] tag \in {"tr", "td", "br"} -> 2
      [] tag = "div" -> 3
      [] tag \in {"style", "table"} -> 5

\* the length of the text an event was parsed from: <tag>, </tag> or text
EventLen(ev) ==
    IF ev.k = "start" THEN TagLen(ev.tag) + 2
    ELSE IF ev.k = "end" THEN TagLen(ev.tag) + 3
    ELSE Len(ev.text)

RECURSIVE InnerLen(_, _)
InnerLen(evs, i) == IF i > Len(evs) THEN 0 ELSE EventLen(evs[i]) + InnerLen(evs, i + 1)

\* len('<a href="' + href + '"'), the part href="..." of an anchor ends here
HrefEnd(seg) == 9 + Len(seg.href) + 1

\* len('<a href="' + href + '">')
StartTagEnd(seg) == HrefEnd(seg) + 1

SegLen(seg) ==
    CASE seg.kind = "pad" -> PadLen
      [] seg.kind = "a" -> StartTagEnd(seg) + Len(seg.label) + 4
      [] seg.kind = "qdiv" -> MarkerLen + InnerLen(seg.inner, 1) + 6
      [] seg.kind = "odiv" -> (MarkerLen + 1) + 6
      [] seg.kind = "table" -> 7 + InnerLen(seg.inner, 1) + 8

RECURSIVE Offset(_, _)
\* the index in html (from 0) at which segment i starts
Offset(doc, i) == IF i = 1 THEN 0 ELSE Offset(doc, i - 1) + SegLen(doc[i - 1])

DocLen(doc) == Offset(doc, Len(doc) + 1)

FirstOf(doc, kind) ==
    IF \E i \in 1..Len(doc) : doc[i].kind = kind
    THEN CHOOSE i \in 1..Len(doc) :
             doc[i].kind = kind /\ \A j \in 1..(i - 1) : doc[j].kind # kind
    ELSE 0

\* html.find('<div data-type="query">')
find_query_div(doc) ==
    IF FirstOf(doc, "qdiv") = 0 THEN -1 ELSE Offset(doc, FirstOf(doc, "qdiv"))

\* len(html[:idx] if idx != -1 else html[:prefix])
HeaderLen(doc, prefix) ==
    IF find_query_div(doc) # -1 THEN find_query_div(doc)
    ELSE IF DocLen(doc) < prefix THEN DocLen(doc) ELSE prefix

\* the events a whole segment parses to; attribute values arrive unescaped
SegEvents(seg) ==
    CASE seg.kind = "pad" -> <<Data(<<"x">>)>>
      [] seg.kind = "a" ->
            <<StartA(Some(unescape(seg.href))), Data(seg.label), EndTag("a")>>
      [] seg.kind = "qdiv" -> <<StartTag("div")>> \o seg.inner \o <<EndTag("div")>>
      [] seg.kind = "odiv" -> <<StartTag("div"), EndTag("div")>>
      [] seg.kind = "table" -> <<StartTag("table")>> \o seg.inner \o <<EndTag("table")>>

\* the events of a segment cut after n of its characters: of an anchor the
\* start tag when it is whole; text with no "<" after it is held back by
\* feed(), and no other cut tag is one LinkExtractor looks at
CutEvents(seg, n) ==
    IF seg.kind = "a" /\ n >= StartTagEnd(seg)
    THEN <<StartA(Some(unescape(seg.href)))>>
    ELSE << >>

RECURSIVE HeaderEvents(_, _, _)
\* the events feed(html[:n]) produces, from segment i on; filler that ends
\* the header is followed by no end tag, so it is in no label
HeaderEvents(doc, n, i) ==
    IF i > Len(doc) \/ Offset(doc, i) >= n THEN << >>
    ELSE IF Offset(doc, i) + SegLen(doc[i]) <= n
    THEN SegEvents(doc[i]) \o HeaderEvents(doc, n, i + 1)
    ELSE CutEvents(doc[i], n - Offset(doc, i))

\* the prefix taken when the document has no query div: line 175
LinkPrefix == 2000

\* line 213
ClusterUrlPrefix == 3000

extract_execute_links(doc) ==
    LE_pairs(LE_feed(LE_init, HeaderEvents(doc, HeaderLen(doc, LinkPrefix), 1), 1))

\* re.findall(r'href="(https?://[^"]+)"', html[:n]): the href of every anchor
\* whose href="..." ends inside the first n characters
HrefMatches(doc, n) ==
    LET hit(i) == /\ doc[i].kind = "a"
                  /\ Offset(doc, i) + HrefEnd(doc[i]) <= n
                  /\ SchemeLen(doc[i].href, 1) > 0
                  /\ Len(doc[i].href) > SchemeLen(doc[i].href, 1)
        idx == {i \in 1..Len(doc) : hit(i)}
    IN  SelectSeq([i \in 1..Len(doc) |-> IF i \in idx THEN Some(doc[i].href) ELSE NONE],
                  LAMBDA m : m # NONE)

RECURSIVE FirstPlainUrl(_, _)
\* lines 215-219
FirstPlainUrl(matches, i) ==
    IF i > Len(matches) THEN NONE
    ELSE IF ~Contains(unescape(matches[i][1]), QueryParam)
    THEN Some(unescape(matches[i][1]))
    ELSE FirstPlainUrl(matches, i + 1)

extract_cluster_url(doc) ==
    FirstPlainUrl(HrefMatches(doc, HeaderLen(doc, ClusterUrlPrefix)), 1)

\* lines 184-193, on the first <div data-type="query">...</div>
extract_query(doc) ==
    IF FirstOf(doc, "qdiv") = 0 THEN NONE
    ELSE LET inner == doc[FirstOf(doc, "qdiv")].inner
             text == ReplaceNbsp(TX_get_text(TX_feed(TX_init, inner, 1)))
         IN  IF Len(Strip(text)) > 0 THEN Some(Strip(text)) ELSE NONE

\* lines 198-207, on the first <table>...</table>
extract_table(doc) ==
    IF FirstOf(doc, "table") = 0 THEN NONE
    ELSE LET inner == doc[FirstOf(doc, "table")].inner
             found == TE_texts(TE_feed(TE_init, inner, 1))
             cleaned == List([r \in 1..Len(found) |->
                            List([c \in 1..Len(found[r]) |-> ReplaceNbsp(found[r][c])])])
         IN  IF Len(cleaned) > 0 THEN Some(cleaned) ELSE NONE

\* "<div data-type=" in html
HasDataTypeDiv(doc) == \E i \in 1..Len(doc) : doc[i].kind \in {"qdiv", "odiv"}

(***************************************************************************)
(* main                                                                    *)
(***************************************************************************)
MaxSegs == 3

\* the deep-link as it stands in the HTML, "&" written "&amp;"
DeepHref ==
    <<"h", "t", "t", "p", "s", ":", "/", "/", "c", ".", "k", "u", "s", "t", "o",
      ".", "n", "e", "t", "/", "d", "b", "?", "w", "=", "1", "&", "a", "m", "p",
      ";", "q", "u", "e", "r", "y", "=", "H", "4", "s">>

\* <p>T</p><p>|&nbsp;take 1</p>
QueryInner ==
    <<StartTag("p"), Data(<<"T">>), EndTag("p"),
      StartTag("p"), Data(<<"|", "NBSP", "t", "a", "k", "e", " ", "1">>), EndTag("p")>>

\* <tr><td>ab</td><td> ab</td></tr><tr><td>see http://... for details</td></tr>
TableInner ==
    <<StartTag("tr"), StartTag("td"), Data(PlainCell), EndTag("td"),
      StartTag("td"), Data(<<" ">>), Data(PlainCell), EndTag("td"), EndTag("tr"),
      StartTag("tr"), StartTag("td"), Data(UrlCell), EndTag("td"), EndTag("tr")>>

Segments ==
    {Pad, Anchor(DeepHref, <<"w", "e", "b">>), Anchor(ClusterUrl, <<"c">>),
     QueryDiv(QueryInner), OtherDiv, Table(TableInner)}

Docs == SeqsUpTo(Segments, MaxSegs)

TsvText == <<"a", "\t", "b", "\n", "\n", "c", "\t", "d", "\n">>

PastedTexts == {<< >>, <<" ", "\n">>, TsvText}

\* s.splitlines(), "\n" being the one line boundary in the pasted texts
SplitLines(s) ==
    IF Len(s) = 0 THEN << >>
    ELSE IF s[Len(s)] = "\n" THEN Split(SubSeq(s, 1, Len(s) - 1), "\n")
    ELSE Split(s, "\n")

\* lines 314-316
TsvToMarkdown(text) ==
    LET lines == SelectSeq(SplitLines(Strip(text)), LAMBDA l : Len(Strip(l)) > 0)
        tsv == List([i \in 1..Len(lines) |-> Split(lines[i], "\t")])
    IN  IF Len(tsv) > 0 THEN rows_to_markdown(tsv) ELSE << >>

InitMain ==
    /\ m_pc = "get_html"
    /\ m_html = NONE
    /\ m_text = NONE
    /\ m_found = NONE
    /\ m_markdown = NONE
    /\ m_sink = << >>

MainIdle ==
    /\ m_pc = "idle"
    /\ m_html = NONE
    /\ m_text = NONE
    /\ m_found = NONE
    /\ m_markdown = NONE
    /\ m_sink = << >>

\* line 295: None, or whatever document the clipboard holds
GetHtml ==
    /\ m_pc = "get_html"
    /\ m_html' \in {NONE} \cup {Some(d) : d \in Docs}
    /\ m_pc' = "branch"
    /\ UNCHANGED <<m_text, m_found, m_markdown, m_sink>>

\* line 295, get_html_from_clipboard raising: main ends with the exception
GetHtmlRaises ==
    /\ m_pc = "get_html"
    /\ m_pc' = "raised"
    /\ UNCHANGED <<m_html, m_text, m_found, m_markdown, m_sink>>

\* html and "<div data-type=" in html
KustoHtml(html) == html # NONE /\ Len(html[1]) > 0 /\ HasDataTypeDiv(html[1])

\* lines 297-304
ConvertHtml ==
    /\ m_pc = "branch"
    /\ KustoHtml(m_html)
    /\ LET execute_links == extract_execute_links(m_html[1])
           cluster_url == extract_cluster_url(m_html[1])
           query == extract_query(m_html[1])
           table_rows == extract_table(m_html[1])
       IN  /\ m_found' = Some([links |-> execute_links, cluster |-> cluster_url,
                               query |-> query, table |-> table_rows])
           /\ m_markdown' = Some(build_markdown(execute_links, cluster_url,
                                                query, table_rows))
    /\ m_pc' = "check"
    /\ UNCHANGED <<m_html, m_text, m_sink>>

\* lines 305-316
ConvertText ==
    /\ m_pc = "branch"
    /\ ~KustoHtml(m_html)
    /\ \E text \in PastedTexts :
          /\ m_text' = Some(text)
          /\ IF Len(text) = 0 \/ Len(Strip(text)) = 0
             THEN m_pc' = "done" /\ UNCHANGED m_markdown
             ELSE m_pc' = "check" /\ m_markdown' = Some(TsvToMarkdown(text))
    /\ UNCHANGED <<m_html, m_found, m_sink>>

\* lines 318-320
NoData ==
    /\ m_pc = "check"
    /\ Len(m_markdown[1]) = 0
    /\ m_pc' = "done"
    /\ UNCHANGED <<m_html, m_text, m_found, m_markdown, m_sink>>

\* the copy without the test of lines 318-320 before it
Copy_unchecked ==
    /\ m_pc = "check"
    /\ m_sink' = Append(m_sink, m_markdown[1])
    /\ m_pc' = "done"
    /\ UNCHANGED <<m_html, m_text, m_found, m_markdown>>

\* lines 322-325
Copy ==
    /\ m_pc = "check"
    /\ ~(Len(m_markdown[1]) = 0)
    /\ m_sink' = Append(m_sink, m_markdown[1])
    /\ m_pc' = "done"
    /\ UNCHANGED <<m_html, m_text, m_found, m_markdown>>

(***************************************************************************)
(* Specifications                                                          *)
(***************************************************************************)
NextRows == CallRowsToMarkdown /\ UNCHANGED <<buildVars, tableVars, linkVars, clipVars, mainVars>>

InitSpecRows == InitRows /\ BuildIdle /\ TableIdle /\ LinkIdle /\ ClipIdle /\ MainIdle

SpecRows == InitSpecRows /\ [][NextRows]_vars

NextBuild == CallBuildMarkdown /\ UNCHANGED <<rowsVars, tableVars, linkVars, clipVars, mainVars>>

InitSpecBuild == InitBuild /\ RowsIdle /\ TableIdle /\ LinkIdle /\ ClipIdle /\ MainIdle

SpecBuild == InitSpecBuild /\ [][NextBuild]_vars

NextTable ==
    \/ TableStartTag /\ UNCHANGED <<rowsVars, buildVars, linkVars, clipVars, mainVars>>
    \/ TableEndTag /\ UNCHANGED <<rowsVars, buildVars, linkVars, clipVars, mainVars>>
    \/ TableData /\ UNCHANGED <<rowsVars, buildVars, linkVars, clipVars, mainVars>>

InitSpecTable == InitTable /\ RowsIdle /\ BuildIdle /\ LinkIdle /\ ClipIdle /\ MainIdle

SpecTable == InitSpecTable /\ [][NextTable]_vars

NextLink ==
    \/ LinkStartTag /\ UNCHANGED <<rowsVars, buildVars, tableVars, clipVars, mainVars>>
    \/ LinkEndTag /\ UNCHANGED <<rowsVars, buildVars, tableVars, clipVars, mainVars>>
    \/ LinkData /\ UNCHANGED <<rowsVars, buildVars, tableVars, clipVars, mainVars>>

InitSpecLink == InitLink /\ RowsIdle /\ BuildIdle /\ TableIdle /\ ClipIdle /\ MainIdle

SpecLink == InitSpecLink /\ [][NextLink]_vars

NextClip ==
    \/ RegisterClipboardFormatW /\ UNCHANGED <<rowsVars, buildVars, tableVars, linkVars, mainVars>>
    \/ OpenClipboard /\ UNCHANGED <<rowsVars, buildVars, tableVars, linkVars, mainVars>>
    \/ GetClipboardData /\ UNCHANGED <<rowsVars, buildVars, tableVars, linkVars, mainVars>>
    \/ GlobalSize /\ UNCHANGED <<rowsVars, buildVars, tableVars, linkVars, mainVars>>
    \/ GlobalLock /\ UNCHANGED <<rowsVars, buildVars, tableVars, linkVars, mainVars>>
    \/ ReadAndDecode /\ UNCHANGED <<rowsVars, buildVars, tableVars, linkVars, mainVars>>
    \/ GlobalUnlock /\ UNCHANGED <<rowsVars, buildVars, tableVars, linkVars, mainVars>>
    \/ CloseClipboard /\ UNCHANGED <<rowsVars, buildVars, tableVars, linkVars, mainVars>>

InitSpecClip == InitClip /\ RowsIdle /\ BuildIdle /\ TableIdle /\ LinkIdle /\ MainIdle

SpecClip == InitSpecClip /\ [][NextClip]_vars

Next ==
    \/ GetHtml /\ UNCHANGED <<rowsVars, buildVars, tableVars, linkVars, clipVars>>
    \/ GetHtmlRaises /\ UNCHANGED <<rowsVars, buildVars, tableVars, linkVars, clipVars>>
    \/ ConvertHtml /\ UNCHANGED <<rowsVars, buildVars, tableVars, linkVars, clipVars>>
    \/ ConvertText /\ UNCHANGED <<rowsVars, buildVars, tableVars, linkVars, clipVars>>
    \/ NoData /\ UNCHANGED <<rowsVars, buildVars, tableVars, linkVars, clipVars>>
    \/ Copy /\ UNCHANGED <<rowsVars, buildVars, tableVars, linkVars, clipVars>>

Init == InitMain /\ RowsIdle /\ BuildIdle /\ TableIdle /\ LinkIdle /\ ClipIdle

Spec == Init /\ [][Next]_vars

(***************************************************************************)
(* rows_to_markdown: C1, C2, C6                                            *)
(***************************************************************************)
\* "| " + text + " ": text printed at the start of a table cell of out
Printed(out, text) == Contains(out, <<"|", " ">> \o text \o <<" ">>)

LinkedBC ==
    <<"s", "e", "e", " ", "[", "b", "/", "c", "]", "(", "h", "t", "t", "p", ":",
      "/", "/", "e", "x", "a", "m", "p", "l", "e", ".", "c", "o", "m", "/", "a",
      "/", "b", "/", "c", ")", " ", "f", "o", "r", " ", "d", "e", "t", "a", "i",
      "l", "s">>

LinkedABC ==
    <<"s", "e", "e", " ", "[", "a", "/", "b", "/", "c", "]", "(", "h", "t", "t",
      "p", ":", "/", "/", "e", "x", "a", "m", "p", "l", "e", ".", "c", "o", "m",
      "/", "a", "/", "b", "/", "c", ")", " ", "f", "o", "r", " ", "d", "e", "t",
      "a", "i", "l", "s">>

\* the first call on raw rows renders every cell holding UrlCell as `linked`
\* in a data row and unchanged in the header row
RendersUrlCellAs(linked) ==
    Len(outs) = 1 =>
        \A r \in 1..Len(raw) : \A c \in 1..Len(raw[r]) :
            raw[r][c] = UrlCell =>
                IF r = 1
                THEN rows[r][c] = UrlCell /\ Printed(outs[1], UrlCell)
                ELSE rows[r][c] = linked /\ Printed(outs[1], linked)

\* C1: two calls in succession on the same rows argument return the same
\* string.
C1_SameOutputTwice == Len(outs) >= 2 => outs[1] = outs[2]

\* C2 as stated: the data cell "see http://example.com/a/b/c for details" is
\* rendered with the label a/b/c, the header cell unchanged.
C2_LabelABC == RendersUrlCellAs(LinkedABC)

\* C2 amended: the data cell "see http://example.com/a/b/c for details" is
\* rendered as "see [b/c](http://example.com/a/b/c) for details" (the label is
\* the last two "/"-separated segments), and the header cell with the same
\* text is rendered unchanged apart from padding.
C2_LabelBC == RendersUrlCellAs(LinkedBC)

C2_Witness ==
    /\ Len(outs) = 1
    /\ Len(raw) = 2
    /\ \E c \in 1..Len(raw[1]) : raw[1][c] = UrlCell
    /\ \E c \in 1..Len(raw[2]) : raw[2][c] = UrlCell

\* C6: for a non-empty row sequence every row is padded to the maximum cell
\* count and the output has exactly one line more than there are rows.
C6_PaddedAndOneLineMore ==
    (Len(outs) >= 1 /\ Len(raw) > 0) =>
        /\ \A r \in 1..Len(rows) : Len(rows[r]) = max_cols(raw)
        /\ Len(Lines(outs[1])) = Len(raw) + 1

(***************************************************************************)
(* build_markdown: C4, C5                                                  *)
(***************************************************************************)
IsHeading(line) == line = QueryHeading \/ line = ResultsHeading

\* every line after heading i, up to the next heading or the end, is empty
NothingUnder(ls, i) ==
    \A j \in (i + 1)..Len(ls) :
        (\A k \in (i + 1)..j : ~IsHeading(ls[k])) => ls[j] = << >>

OnlyTablePresent(a) ==
    /\ Len(a.links) = 0
    /\ ~Truthy(a.cluster)
    /\ ~Truthy(a.query)
    /\ Truthy(a.table)

\* C4: whatever is present or absent, the document has no separator of an
\* absent section: it neither starts nor ends with an empty line, no heading
\* has nothing under it, and with only table rows it starts with the Results
\* heading.
C4_NoStraySeparators ==
    (b_doc # NONE /\ Len(b_doc[1]) > 0) =>
        LET ls == Lines(b_doc[1])
        IN  /\ ls[1] # << >>
            /\ ls[Len(ls)] # << >>
            /\ \A i \in 1..Len(ls) : IsHeading(ls[i]) => ~NothingUnder(ls, i)
            /\ OnlyTablePresent(b_args) => StartsWith(b_doc[1], ResultsHeading)

Before(A, B) == \A i \in A : \A j \in B : i < j

Count(present) == IF present THEN 1 ELSE 0

\* C5: the Query heading is emitted at most once: on line 1 when links or a
\* cluster URL are present, on line 1 with the kql fence right under it when
\* there is a query and neither, and not at all when only table rows are
\* present; and the sections come in the order Query heading, cluster line,
\* Open-in line, kql code block, Results heading, table.
C5_OneQueryHeadingInOrder ==
    b_doc # NONE =>
        LET ls == Lines(b_doc[1])
            a == b_args
            hasHeader == Len(a.links) > 0 \/ Truthy(a.cluster)
            hasDeep == \E i \in 1..Len(a.links) : Contains(a.links[i].url, QueryParam)
            table == IF Truthy(a.table) THEN Lines(rows_to_markdown(a.table[1])) ELSE << >>
            H == {i \in 1..Len(ls) : ls[i] = QueryHeading}
            Cl == {i \in 1..Len(ls) : StartsWith(ls[i], ClusterPrefix)}
            Op == {i \in 1..Len(ls) : StartsWith(ls[i], OpenInPrefix)}
            Fo == {i \in 1..Len(ls) : ls[i] = FenceOpen}
            Fc == {i \in 1..Len(ls) : ls[i] = FenceClose}
            R == {i \in 1..Len(ls) : ls[i] = ResultsHeading}
            Tb == (Len(ls) - Len(table) + 1)..Len(ls)
        IN  /\ Cardinality(H) = Count(hasHeader \/ Truthy(a.query))
            /\ hasHeader => H = {1}
            /\ (~hasHeader /\ Truthy(a.query)) =>
                   H = {1} /\ ls[2] = << >> /\ ls[3] = FenceOpen
            /\ OnlyTablePresent(a) => H = { }
            /\ Cardinality(Cl) = Count(Truthy(a.cluster))
            /\ Cardinality(Op) = Count(hasDeep)
            /\ Cardinality(Fo) = Count(Truthy(a.query))
            /\ Cardinality(Fc) = Count(Truthy(a.query))
            /\ Cardinality(R) = Count(Truthy(a.table))
            /\ Truthy(a.table) =>
                   /\ SubSeq(ls, Len(ls) - Len(table) + 1, Len(ls)) = table
                   /\ R = {Len(ls) - Len(table) - 1}
            /\ Before(H, Cl \cup Op \cup Fo \cup R)
            /\ Before(Cl, Op \cup Fo \cup R)
            /\ Before(Op, Fo \cup R)
            /\ Before(Fo, Fc)
            /\ Before(Fc, R)
            /\ Before(R, Tb)

C5_Witness ==
    /\ b_doc # NONE
    /\ \E i \in 1..Len(b_args.links) : b_args.links[i] = DeepLink
    /\ Truthy(b_args.cluster)
    /\ b_args.query = Some(TwoLineQuery)
    /\ Truthy(b_args.table)

(***************************************************************************)
(* LinkExtractor: C9                                                       *)
(***************************************************************************)
IsStartA(ev) == ev.k = "start" /\ ev.tag = "a"

IsEndA(ev) == ev.k = "end" /\ ev.tag = "a"

\* event i lies between the start of an <a> without href and that tag's end:
\* the last <a> before i has no href and no </a> comes between the two
InsideHreflessA(log, i) ==
    \E j \in 1..(i - 1) :
        /\ IsStartA(log[j]) /\ log[j].href = NONE
        /\ \A m \in (j + 1)..(i - 1) : ~IsStartA(log[m]) /\ ~IsEndA(log[m])

\* C9: an <a> without href contributes no pair (every pair comes from an <a>
\* that has one, and there are no more pairs than such tags closed), and no
\* text between such a tag's start and end is part of any pair's label.
C9_HreflessAnchorSkipped ==
    /\ \A k \in 1..Len(l_ext.links) :
          LET link == l_ext.links[k]
          IN  /\ IsStartA(l_log[link.from])
              /\ l_log[link.from].href # NONE
              /\ link.url = unescape(l_log[link.from].href[1])
              /\ \A i \in link.src : ~InsideHreflessA(l_log, i)
    /\ \A j, k \in 1..Len(l_ext.links) :
          j # k => l_ext.links[j].from # l_ext.links[k].from

C9_Witness ==
    /\ Len(l_ext.links) >= 1
    /\ \E i \in 1..Len(l_log) :
          /\ l_log[i].k = "data"
          /\ InsideHreflessA(l_log, i)
          /\ \E e \in (i + 1)..Len(l_log) : IsEndA(l_log[e])

(***************************************************************************)
(* TableExtractor: C10                                                     *)
(***************************************************************************)
IsTag(ev, k, tag) == ev.k = k /\ ev.tag = tag

\* the last <tr> before event e, 0 when there is none
OpeningOf(log, e) ==
    MaxOf({0} \cup {j \in 1..(e - 1) : IsTag(log[j], "start", "tr")})

\* the </td> events strictly between events o and e
ClosedBetween(log, o, e) == {j \in (o + 1)..(e - 1) : IsTag(log[j], "end", "td")}

\* C10: a row is appended only by a </tr> and only with at least one cell, so
\* no emitted row is empty, and each emitted row holds exactly the cells
\* closed between its <tr> and its </tr> (stated for the rows that have a
\* <tr>).
C10_RowsHoldTheirCells ==
    /\ Len(t_emits) = Len(t_ext.rows)
    /\ \A k \in 1..Len(t_ext.rows) :
          LET row == TE_rows(t_ext)[k]
              e == t_emits[k]
          IN  /\ IsTag(t_log[e], "end", "tr")
              /\ Len(row) >= 1
              /\ OpeningOf(t_log, e) > 0 =>
                     {row[c].at : c \in 1..Len(row)}
                         = ClosedBetween(t_log, OpeningOf(t_log, e), e)

(***************************************************************************)
(* get_html_from_clipboard: C8                                             *)
(***************************************************************************)
\* C8: once OpenClipboard has succeeded, CloseClipboard is called exactly
\* once before the function ends, whichever way it ends; the data is touched
\* only while the clipboard is open; GlobalUnlock is called exactly when
\* GlobalLock succeeded; and the clipboard is never left open.
C8_ClipboardReleased ==
    /\ c_calls.close <= 1
    /\ c_calls.unlock <= 1
    /\ ~c_got.touchedClosed
    /\ c_locked => c_open
    /\ c_calls.close = 1 => c_got.opened
    /\ c_calls.unlock = 1 => c_got.locked
    /\ c_pc = "done" =>
          /\ c_calls.close = Count(c_got.opened)
          /\ c_calls.unlock = Count(c_got.locked)
          /\ ~c_open
          /\ ~c_locked

C8_Witness ==
    /\ c_pc = "done"
    /\ c_got.locked
    /\ c_result = Some(Raising)
    /\ c_calls = [close |-> 1, unlock |-> 1]

(***************************************************************************)
(* main: C7, C3                                                            *)
(***************************************************************************)
\* no clipboard content: HTML absent or without the marker, plain text empty
NoContent ==
    /\ ~KustoHtml(m_html)
    /\ m_text # NONE
    /\ Len(Strip(m_text[1])) = 0

\* C7: in every run of main pyperclip.copy is called at most once, and only
\* with the complete, non-empty markdown; main ends without a call when no
\* clipboard content is available, when the markdown is empty, and when
\* reading the clipboard raised.
C7_SinkWrittenOnceWhole ==
    /\ Len(m_sink) <= 1
    /\ \A i \in 1..Len(m_sink) :
          /\ Len(m_sink[i]) > 0
          /\ m_markdown = Some(m_sink[i])
          /\ m_pc = "done"
    /\ m_pc \in {"get_html", "branch", "check", "raised"} => m_sink = << >>
    /\ (m_pc = "done" /\ NoContent) => m_sink = << >>
    /\ (m_pc = "done" /\ m_markdown = NONE) => m_sink = << >>
    /\ (m_pc = "done" /\ m_markdown = Some(<< >>)) => m_sink = << >>
    /\ (m_pc = "done" /\ m_markdown # NONE /\ m_markdown # Some(<< >>)) =>
          m_sink = <<m_markdown[1]>>

\* a run over a Kusto document whose markdown came out empty, ended unwritten
C7_Witness ==
    /\ m_pc = "done"
    /\ KustoHtml(m_html)
    /\ m_markdown = Some(<< >>)
    /\ m_sink = << >>

\* the anchors wholly inside the first n characters of the document
AnchorsWithin(doc, n) ==
    {i \in 1..Len(doc) : doc[i].kind = "a" /\ Offset(doc, i) + SegLen(doc[i]) <= n}

\* C3: extract_cluster_url and extract_execute_links scan the same header
\* region of every document, so the cluster URL returned is the href of an
\* anchor inside the region the link extractor scans.
C3_SameHeaderRegion ==
    m_found # NONE =>
        LET doc == m_html[1]
        IN  /\ HeaderLen(doc, ClusterUrlPrefix) = HeaderLen(doc, LinkPrefix)
            /\ m_found[1].cluster # NONE =>
                  \E i \in AnchorsWithin(doc, HeaderLen(doc, LinkPrefix)) :
                      unescape(doc[i].href) = m_found[1].cluster[1]

=============================================================================
